---- MODULE Spec2Model ----
(***************************************************************************)
(* Model of src/conflict-resolver.py (class MergeConflictResolver, main).  *)
(*                                                                         *)
(* Text is a sequence of tokens.  A token is a piece of text that the      *)
(* program's patterns treat as a unit: a newline, a run of blanks, one of  *)
(* the three marker strings, a word, a proto field declaration             *)
(* "<type> <name> = <number>;", a "//" comment, a Go case header           *)
(* "case *<pkg>.<Type>:" or "default:".  Names are sequences of code       *)
(* points so that Python's sorted() on strings can be modelled.            *)
(***************************************************************************)
EXTENDS Integers, Sequences, FiniteSets, TLC

VARIABLES
    pc,               \* position of the running operation
    strategy,         \* which resolve_*_conflict is applied to `content`
    segments,         \* the pieces the input buffer was assembled from
    content,          \* the input buffer (original_content)
    conflicts,        \* result of parse_conflict_sections(content)
    merged,           \* merged_section computed for each conflict
    resolved_content, \* the buffer returned by resolve_*_conflict
    dry_run,          \* resolve_all_conflicts(dry_run)
    is_repo,          \* whether <repo>/.git exists (main)
    conflicted_files, \* the list built from `git status --porcelain`
    fs,               \* file system: path -> text, or None when absent
    idx,              \* loop index into conflicted_files
    resolved_files,   \* the list resolved_files
    final_text,       \* per processed file: the text the run ends with
    calls,            \* mutating collaborator operations performed, in order
    result,           \* return value of resolve_all_conflicts
    exit_code         \* process exit status

vars == <<pc, strategy, segments, content, conflicts, merged, resolved_content,
          dry_run, is_repo, conflicted_files, fs, idx, resolved_files,
          final_text, calls, result, exit_code>>

bufvars == <<strategy, segments, content, conflicts, merged, resolved_content>>
runvars == <<dry_run, is_repo, conflicted_files, fs, idx, resolved_files,
             final_text, calls, result, exit_code>>

None == "None"

(***************************************************************************)
(* Tokens                                                                  *)
(***************************************************************************)
Tok(k, t, n, v) == [k |-> k, t |-> t, n |-> n, v |-> v]

NL == Tok("nl", "", <<>>, 0)                \* "\n"
SP == Tok("sp", "", <<>>, 0)                \* a run of blanks or tabs
LT == Tok("lt", "", <<>>, 0)                \* "<<<<<<< "
EQ == Tok("eq", "", <<>>, 0)                \* "======="
GT == Tok("gt", "", <<>>, 0)                \* ">>>>>>> "
CMT == Tok("cmt", "", <<>>, 0)              \* "// ..." up to the end of line
DEFAULT == Tok("default", "", <<>>, 0)      \* "default:"
Ch(c) == Tok("ch", c, <<>>, 0)              \* a word without blanks or ':'
Decl(type, name, num) == Tok("decl", type, name, num)  \* "type name = num;"
Case(pkg, type) == Tok("case", pkg, type, 0)           \* "case *pkg.Type:"

IsSpace(t) == t.k \in {"nl", "sp"}

(***************************************************************************)
(* Python str helpers on token sequences                                   *)
(***************************************************************************)
Max(a, b) == IF a >= b THEN a ELSE b

\* sub in s  (substring test at token granularity)
Contains(s, t) == \E i \in 1..Len(s) : s[i] = t

\* s[i:].startswith(old)
StartsAt(s, i, old) ==
    /\ i + Len(old) - 1 <= Len(s)
    /\ \A j \in 1..Len(old) : s[i + j - 1] = old[j]

RECURSIVE ReplaceFrom(_, _, _, _)
ReplaceFrom(s, i, old, new) ==
    IF i > Len(s) THEN <<>>
    ELSE IF StartsAt(s, i, old)
         THEN new \o ReplaceFrom(s, i + Len(old), old, new)
         ELSE <<s[i]>> \o ReplaceFrom(s, i + 1, old, new)

\* s.replace(old, new): every non-overlapping occurrence, left to right
Replace(s, old, new) == ReplaceFrom(s, 1, old, new)

RECURSIVE RStrip(_)
RStrip(s) ==
    IF s # <<>> /\ IsSpace(s[Len(s)]) THEN RStrip(SubSeq(s, 1, Len(s) - 1)) ELSE s

RECURSIVE LStrip(_)
LStrip(s) ==
    IF s # <<>> /\ IsSpace(s[1]) THEN LStrip(Tail(s)) ELSE s

Strip(s) == LStrip(RStrip(s))

\* s.split('\n')
RECURSIVE Split(_)
Split(s) ==
    IF ~Contains(s, NL) THEN <<s>>
    ELSE LET i == CHOOSE j \in 1..Len(s) :
                      s[j] = NL /\ \A h \in 1..(j - 1) : s[h] # NL
         IN <<SubSeq(s, 1, i - 1)>> \o Split(SubSeq(s, i + 1, Len(s)))

\* '\n'.join(lines)
RECURSIVE Join(_)
Join(lines) ==
    IF lines = <<>> THEN <<>>
    ELSE IF Len(lines) = 1 THEN lines[1]
    ELSE lines[1] \o <<NL>> \o Join(Tail(lines))

\* a < b for Python strings (code point order)
RECURSIVE StrLess(_, _)
StrLess(a, b) ==
    IF b = <<>> THEN FALSE
    ELSE IF a = <<>> THEN TRUE
    ELSE IF a[1] # b[1] THEN a[1] < b[1]
    ELSE StrLess(Tail(a), Tail(b))

\* sorted(S) for a set of strings
RECURSIVE sorted(_)
sorted(S) ==
    IF S = {} THEN <<>>
    ELSE LET m == CHOOSE x \in S : \A y \in S \ {x} : StrLess(x, y)
         IN <<m>> \o sorted(S \ {m})

(***************************************************************************)
(* parse_conflict_sections: the regular expression                         *)
(*   <<<<<<< ([^\n]+)\n(.*?)\n=======\n(.*?)\n>>>>>>> ([^\n]+)   (DOTALL)   *)
(* matched by re.finditer: leftmost, lazy groups, non-overlapping.         *)
(***************************************************************************)
\* last index of the run of non-newline tokens that starts at i
LineEnd(s, i) ==
    CHOOSE q \in i..Len(s) :
        /\ \A j \in i..q : s[j] # NL
        /\ q = Len(s) \/ s[q + 1] = NL

\* ends k of group 2 that are followed by "\n=======\n"
SepEnds(s, from) ==
    {k \in (from - 1)..(Len(s) - 3) :
        s[k + 1] = NL /\ s[k + 2] = EQ /\ s[k + 3] = NL}

\* ends m of group 3 that are followed by "\n>>>>>>> " and a label character
EndEnds(s, from) ==
    {m \in (from - 1)..(Len(s) - 3) :
        s[m + 1] = NL /\ s[m + 2] = GT /\ s[m + 3] # NL}

SetMin(S) == CHOOSE x \in S : \A y \in S : x <= y

\* whether the pattern matches with its first character at position p
Matches(s, p) ==
    /\ p + 2 <= Len(s)
    /\ s[p] = LT
    /\ s[p + 1] # NL
    /\ LineEnd(s, p + 1) < Len(s)
    /\ \E k \in SepEnds(s, LineEnd(s, p + 1) + 2) : EndEnds(s, k + 4) # {}

\* the match at p: positions of the groups
MatchAt(s, p) ==
    LET q == LineEnd(s, p + 1)
        k == SetMin({x \in SepEnds(s, q + 2) : EndEnds(s, x + 4) # {}})
        m == SetMin(EndEnds(s, k + 4))
        r == LineEnd(s, m + 3)
    IN [start |-> p, ref_end |-> q, cur_end |-> k, inc_end |-> m, end |-> r]

RECURSIVE FindIter(_, _)
FindIter(s, p) ==
    IF p > Len(s) THEN <<>>
    ELSE IF Matches(s, p)
         THEN <<MatchAt(s, p)>> \o FindIter(s, MatchAt(s, p).end + 1)
         ELSE FindIter(s, p + 1)

parse_conflict_sections(s) ==
    LET ms == FindIter(s, 1)
    IN [i \in 1..Len(ms) |->
          [current_ref      |-> SubSeq(s, ms[i].start + 1, ms[i].ref_end),
           current_content  |-> SubSeq(s, ms[i].ref_end + 2, ms[i].cur_end),
           incoming_ref     |-> SubSeq(s, ms[i].inc_end + 3, ms[i].end),
           incoming_content |-> SubSeq(s, ms[i].cur_end + 4, ms[i].inc_end),
           full_match       |-> SubSeq(s, ms[i].start, ms[i].end)]]

(***************************************************************************)
(* extract_oneof_entries                                                   *)
(***************************************************************************)
\* re.match(field_pattern, line) on the stripped line
FieldMatch(line) == line # <<>> /\ line[1].k = "decl"

\* the loop body of extract_oneof_entries for one line
ExtractLine(acc, rawline) ==
    LET line == Strip(rawline)
    IN IF line = <<>> \/ line[1].k = "cmt" THEN acc
       ELSE IF FieldMatch(line)
            THEN [entries    |-> (line[1].n :> <<line[1].t, line[1].v>>) @@ acc.entries,
                  max_number |-> Max(acc.max_number, line[1].v)]
            ELSE acc

RECURSIVE ExtractLines(_, _)
ExtractLines(acc, lines) ==
    IF lines = <<>> THEN acc
    ELSE ExtractLines(ExtractLine(acc, lines[1]), Tail(lines))

EmptyDict == [x \in {} |-> 0]

extract_oneof_entries(text) ==
    ExtractLines([entries |-> EmptyDict, max_number |-> 0], Split(text))

(***************************************************************************)
(* resolve_proto_conflict                                                  *)
(***************************************************************************)
\* a numbering that starts at the highest number in use, not after it
FirstNewNumberNoIncrement(incoming_max, current_max) == Max(incoming_max, current_max)

\* next_number = max(incoming_max, current_max) + 1
FirstNewNumber(incoming_max, current_max) == Max(incoming_max, current_max) + 1

\* f"    {field_type} {field_name} = {next_number};"
FieldLine(field_type, field_name, number) == <<SP, Decl(field_type, field_name, number)>>

RECURSIVE Reverse(_)
Reverse(q) == IF q = <<>> THEN <<>> ELSE Append(Reverse(Tail(q)), q[1])

\* the names visited in descending order
CurrentOnlyOrderDescending(current_only) == Reverse(sorted(current_only))

\* the names of current_only in the order the loop visits them
CurrentOnlyOrder(current_only) == sorted(current_only)

\* additional_lines
AdditionalLines(current_entries, current_only, next_number) ==
    LET order == CurrentOnlyOrder(current_only)
    IN [i \in 1..Len(order) |->
          FieldLine(current_entries[order[i]][1], order[i], next_number + i - 1)]

\* merged_section for one conflict (loop body, lines 114-139)
proto_merged_section(conflict) ==
    LET cur == extract_oneof_entries(conflict.current_content)
        inc == extract_oneof_entries(conflict.incoming_content)
        current_only == (DOMAIN cur.entries) \ (DOMAIN inc.entries)
        next_number == FirstNewNumber(inc.max_number, cur.max_number)
    IN IF current_only # {}
       THEN RStrip(conflict.incoming_content) \o <<NL>>
                \o Join(AdditionalLines(cur.entries, current_only, next_number))
       ELSE conflict.incoming_content

(***************************************************************************)
(* extract_switch_cases / resolve_go_conflict                              *)
(* case_pattern = case\s*\*[^:]*\.([^:]+):(.*?)(?=case\s|\n\s*default\s*:|$)*)
(* extract_import_statements only feeds print(): no text depends on it.    *)
(***************************************************************************)
\* the lookahead (?=case\s|\n\s*default\s*:|$) at position j (before s[j])
RECURSIVE DefaultAhead(_, _)
DefaultAhead(s, j) ==
    /\ j <= Len(s)
    /\ \/ s[j] = DEFAULT
       \/ IsSpace(s[j]) /\ DefaultAhead(s, j + 1)

CaseLookahead(s, j) ==
    \/ j > Len(s)
    \/ j = Len(s) /\ s[j] = NL
    \/ s[j].k = "case"
    \/ s[j] = NL /\ DefaultAhead(s, j + 1)

\* end of the lazy body (.*?) of the case whose header is s[i]
CaseBodyEnd(s, i) ==
    SetMin({j \in i..Len(s) : CaseLookahead(s, j + 1)})

\* "case *spb.{case_type}:\n{case_body}"
CaseText(case_type, case_body) == <<Case("spb", case_type), NL>> \o case_body

RECURSIVE CasesFrom(_, _, _)
CasesFrom(s, i, cases) ==
    IF i > Len(s) THEN cases
    ELSE IF s[i].k = "case"
         THEN LET e == CaseBodyEnd(s, i)
                  body == Strip(SubSeq(s, i + 1, e))
              IN CasesFrom(s, e + 1, (s[i].n :> CaseText(s[i].n, body)) @@ cases)
         ELSE CasesFrom(s, i + 1, cases)

extract_switch_cases(text) == CasesFrom(text, 1, EmptyDict)

RECURSIVE AppendCases(_, _, _)
AppendCases(section, order, cases) ==
    IF order = <<>> THEN section
    ELSE AppendCases(section \o <<NL, SP>> \o cases[order[1]], Tail(order), cases)

\* merged_section for one conflict (loop body, lines 207-240)
go_merged_section(conflict) ==
    LET current_cases == extract_switch_cases(conflict.current_content)
        incoming_cases == extract_switch_cases(conflict.incoming_content)
        current_only_cases == (DOMAIN current_cases) \ (DOMAIN incoming_cases)
    IN AppendCases(conflict.incoming_content, sorted(current_only_cases), current_cases)

(***************************************************************************)
(* resolve_generic_conflict                                                *)
(***************************************************************************)
\* a merge that appends the current text without comparing the sides
generic_merged_section_no_compare(conflict) ==
    IF Strip(conflict.current_content) # <<>>
    THEN conflict.incoming_content \o <<NL>> \o conflict.current_content
    ELSE conflict.incoming_content

\* merged_section for one conflict (loop body, lines 257-261)
generic_merged_section(conflict) ==
    IF Strip(conflict.current_content) # <<>>
         /\ conflict.current_content # conflict.incoming_content
    THEN conflict.incoming_content \o <<NL>> \o conflict.current_content
    ELSE conflict.incoming_content

(***************************************************************************)
(* The replacement loop shared by the three resolve_*_conflict methods     *)
(***************************************************************************)
MergedSection(kind, conflict) ==
    CASE kind = "proto" -> proto_merged_section(conflict)
      [] kind = "go" -> go_merged_section(conflict)
      [] OTHER -> generic_merged_section(conflict)

\* resolved_content.replace(conflict['full_match'], merged_section)
ReplaceConflict(resolved, conflict, section) ==
    Replace(resolved, conflict.full_match, section)

RECURSIVE ResolveLoop(_, _, _)
ResolveLoop(kind, resolved, cs) ==
    IF cs = <<>> THEN resolved
    ELSE ResolveLoop(kind,
                     ReplaceConflict(resolved, cs[1], MergedSection(kind, cs[1])),
                     Tail(cs))

resolve_proto_conflict(text) == ResolveLoop("proto", text, parse_conflict_sections(text))
resolve_go_conflict(text) == ResolveLoop("go", text, parse_conflict_sections(text))
resolve_generic_conflict(text) == ResolveLoop("generic", text, parse_conflict_sections(text))

(***************************************************************************)
(* Input buffers.  A buffer is assembled from segments: a line of plain    *)
(* text, or a conflict block as git writes it, with a current side and an  *)
(* incoming side.  A side is a sequence of lines, empty when that side    *)
(* has no line at all.                                                     *)
(***************************************************************************)
MaxCurLines == 2     \* lines on the current side of a schema block
MaxIncLines == 2     \* lines on the incoming side of a schema block
MaxSideLen == 2      \* tokens on each side of a generic block
MaxSegments == 2     \* segments of a multi-block buffer

Foo == <<70, 111, 111>>
Bar == <<66, 97, 114>>
HEAD == <<Ch("HEAD")>>
dev == <<Ch("dev")>>
dev2 == <<Ch("dev"), Ch("2")>>

TextSeg(line) == [kind |-> "text", cur |-> <<line>>, inc |-> <<>>, label |-> <<>>]
BlockSeg(cur, inc, label) == [kind |-> "block", cur |-> cur, inc |-> inc, label |-> label]

\* the lines of a side, each ended by its newline
RECURSIVE SideText(_)
SideText(lines) ==
    IF lines = <<>> THEN <<>> ELSE lines[1] \o <<NL>> \o SideText(Tail(lines))

\* a block without the newline that ends its last line
BlockSpan(seg) ==
    <<LT>> \o HEAD \o <<NL>> \o SideText(seg.cur) \o <<EQ, NL>>
        \o SideText(seg.inc) \o <<GT>> \o seg.label

SegText(seg) ==
    IF seg.kind = "text" THEN SideText(seg.cur) ELSE BlockSpan(seg) \o <<NL>>

RECURSIVE Buffer(_)
Buffer(segs) == IF segs = <<>> THEN <<>> ELSE SegText(segs[1]) \o Buffer(Tail(segs))

\* all sequences over S of length lo..hi
SeqsOf(S, lo, hi) == UNION {[1..n -> S] : n \in lo..hi}

\* schema lines: indented declarations, a line of other text, a comment
\* line, a blank line
CurLines ==
    {<<SP, Decl(t, n, v)>> : t \in {"string", "int"}, n \in {Foo, Bar}, v \in {3, 6}}
        \cup {<<Ch("}")>>}
IncLines ==
    {<<SP, Decl("string", n, v)>> : n \in {Foo, Bar}, v \in {5, 6}}
        \cup {<<CMT>>, <<>>}

ProtoBlocks ==
    {BlockSeg(c, i, dev) :
        c \in SeqsOf(CurLines, 1, MaxCurLines), i \in SeqsOf(IncLines, 1, MaxIncLines)}

GenericSides == SeqsOf({Ch("A"), Ch("B"), SP, NL}, 0, MaxSideLen)

GenericBlocks == {BlockSeg(Split(c), Split(i), dev) : c \in GenericSides, i \in GenericSides}

\* sides of the blocks of a multi-block buffer
BufferCur ==
    {<<>>, <<<<Ch("a")>>>>, <<<<SP, Decl("int", Bar, 6)>>>>,
     <<<<Case("spb", Foo)>>, <<SP, Ch("a")>>>>}
BufferInc == {<<>>, <<<<Ch("b")>>>>, <<<<SP, Decl("string", Foo, 5)>>>>}
BufferSegs ==
    {g \in {BlockSeg(c, i, l) : c \in BufferCur, i \in BufferInc, l \in {dev, dev2}} :
        g.cur # <<>> \/ g.inc # <<>>}
        \cup {TextSeg(<<Ch("x")>>)}

RunIdle ==
    /\ dry_run = FALSE /\ is_repo = TRUE /\ conflicted_files = <<>>
    /\ fs = <<>> /\ idx = 0 /\ resolved_files = <<>> /\ final_text = <<>>
    /\ calls = <<>> /\ result = None /\ exit_code = -1

BufInit(kind, segs) ==
    /\ pc = "start"
    /\ strategy = kind
    /\ segments = segs
    /\ content = Buffer(segs)
    /\ conflicts = <<>>
    /\ merged = <<>>
    /\ resolved_content = <<>>
    /\ RunIdle

InitProto == \E b \in ProtoBlocks : BufInit("proto", <<b>>)
InitGeneric == \E b \in GenericBlocks : BufInit("generic", <<b>>)
InitBuffer ==
    \E kind \in {"proto", "go", "generic"} :
        \E segs \in SeqsOf(BufferSegs, 1, MaxSegments) : BufInit(kind, segs)

\* one call of resolve_<kind>_conflict(content)
Resolve(kind, text) ==
    /\ pc = "start"
    /\ strategy = kind
    /\ conflicts' = parse_conflict_sections(content)
    /\ merged' = [i \in 1..Len(conflicts') |-> MergedSection(kind, conflicts'[i])]
    /\ resolved_content' = text
    /\ pc' = "done"
    /\ UNCHANGED <<strategy, segments, content>>
    /\ UNCHANGED runvars

ResolveProto == Resolve("proto", resolve_proto_conflict(content))
ResolveGo == Resolve("go", resolve_go_conflict(content))
ResolveGeneric == Resolve("generic", resolve_generic_conflict(content))

NextProto == ResolveProto
NextGeneric == ResolveGeneric
NextBuffer == ResolveProto \/ ResolveGo \/ ResolveGeneric

SpecProto == InitProto /\ [][NextProto]_vars
SpecGeneric == InitGeneric /\ [][NextGeneric]_vars
SpecBuffer == InitBuffer /\ [][NextBuffer]_vars

(***************************************************************************)
(* main / resolve_all_conflicts                                            *)
(***************************************************************************)
MaxFiles == 2        \* conflicted files listed by git status

Path(name) == [name |-> name, backup |-> FALSE]
\* file_path.with_suffix(f"{file_path.suffix}.backup")
BackupPath(path) == [path EXCEPT !.backup = TRUE]

Paths == {Path("scan_result.proto"), Path("secret.go"), Path("README.md")}
AllPaths == Paths \cup {BackupPath(q) : q \in Paths}

Missing == [exists |-> FALSE, text |-> <<>>]
File(text) == [exists |-> TRUE, text |-> text]

SchemaBlock == BlockSeg(<<<<SP, Decl("int", Bar, 6)>>>>, <<<<SP, Decl("string", Foo, 5)>>>>, dev)

\* what a conflicted file may hold when the run starts
FileStates ==
    {Missing,
     File(<<Ch("x"), NL>>),
     File(Buffer(<<SchemaBlock>>)),
     File(<<LT>> \o HEAD \o <<NL, Ch("a"), NL, GT>> \o dev \o <<NL>>),
     File(Buffer(<<BlockSeg(<<>>, <<<<Ch("b")>>>>, dev)>>)),
     File(Buffer(<<SchemaBlock>>) \o <<GT, Ch("zz"), NL>>)}

\* lists of distinct paths
FileLists ==
    {l \in SeqsOf(Paths, 0, MaxFiles) : \A i, j \in 1..Len(l) : i # j => l[i] # l[j]}

BufIdle ==
    /\ strategy = None /\ segments = <<>> /\ content = <<>>
    /\ conflicts = <<>> /\ merged = <<>> /\ resolved_content = <<>>

Init ==
    /\ pc = "main"
    /\ dry_run \in BOOLEAN
    /\ is_repo \in BOOLEAN
    /\ conflicted_files \in FileLists
    /\ \E f \in [Paths -> FileStates] :
          /\ \A q \in Paths :
                (\A i \in 1..Len(conflicted_files) : conflicted_files[i] # q)
                    => f[q] = Missing
          /\ fs = [q \in AllPaths |-> IF q \in Paths THEN f[q] ELSE Missing]
    /\ idx = 0
    /\ resolved_files = <<>>
    /\ final_text = <<>>
    /\ calls = <<>>
    /\ result = None
    /\ exit_code = -1
    /\ BufIdle

Call(op, path, ok) == [op |-> op, path |-> path, ok |-> ok]
NoPath == [name |-> "", backup |-> FALSE]

\* has_merge_conflicts, given the file
has_merge_conflicts(file) ==
    /\ file.exists
    /\ Contains(file.text, LT) /\ Contains(file.text, EQ) /\ Contains(file.text, GT)

\* the strategy selected by file_path.name (lines 328-333)
ResolveByName(name, text) ==
    IF name = "scan_result.proto" THEN resolve_proto_conflict(text)
    ELSE IF name = "secret.go" THEN resolve_go_conflict(text)
    ELSE resolve_generic_conflict(text)

\* the check "<<<<<<< " in resolved_content (line 336)
ConflictsRemain(text) == Contains(text, LT)

\* a guard that lets a dry run write
MayWriteAlways(dry) == TRUE

\* the guard `if not dry_run` of the backup and the write (line 340)
MayWrite(dry) == ~dry

\* any(f.name == "scan_result.proto" for f in resolved_files) (line 357)
ProtoResolved(files) ==
    \E i \in 1..Len(files) : files[i].name = "scan_result.proto"

\* a run that goes on to staging whatever regenerate_pb_go returned
AfterRegenerateIgnored(ok) == "stage"

\* where resolve_all_conflicts goes after regenerate_pb_go (lines 360-361)
AfterRegenerate(ok) == IF ok THEN "stage" ELSE "return"

\* main: the .git check (lines 414-417)
Main ==
    /\ pc = "main"
    /\ IF is_repo
       THEN pc' = "status" /\ UNCHANGED exit_code
       ELSE pc' = "exit" /\ exit_code' = 1
    /\ UNCHANGED <<dry_run, is_repo, conflicted_files, fs, idx, resolved_files,
                   final_text, calls, result>>
    /\ UNCHANGED bufvars

\* git status --porcelain and the list of conflicted files (lines 294-307)
GitStatus ==
    /\ pc = "status"
    /\ \E ok \in BOOLEAN :
          /\ calls' = Append(calls, Call("git status", NoPath, ok))
          /\ IF ~ok THEN result' = "False" /\ pc' = "return" /\ UNCHANGED idx
             ELSE IF conflicted_files = <<>>
                  THEN result' = "True" /\ pc' = "return" /\ UNCHANGED idx
                  ELSE result' = result /\ pc' = "loop" /\ idx' = 1
    /\ UNCHANGED <<dry_run, is_repo, conflicted_files, fs, resolved_files,
                   final_text, exit_code>>
    /\ UNCHANGED bufvars

Skip(path, log) ==
    /\ calls' = calls \o log
    /\ idx' = idx + 1
    /\ UNCHANGED <<pc, fs, resolved_files, final_text, result, exit_code>>

Resolved(path, text, log) ==
    /\ calls' = calls \o log
    /\ idx' = idx + 1
    /\ resolved_files' = Append(resolved_files, path)
    /\ final_text' = (path :> text) @@ final_text
    /\ UNCHANGED <<pc, result, exit_code>>

\* one iteration of the loop over conflicted_files (lines 316-354)
ProcessFile ==
    /\ pc = "loop"
    /\ idx <= Len(conflicted_files)
    /\ LET path == conflicted_files[idx]
           file == fs[path]
           resolved == ResolveByName(path.name, file.text)
           backup == BackupPath(path)
       IN \* file_path.read_text() raises inside has_merge_conflicts,
          \* outside the try block: the exception leaves the run
          \/ /\ file.exists
             /\ calls' = Append(calls, Call("read_text", path, FALSE))
             /\ pc' = "exit"
             /\ exit_code' = 1
             /\ UNCHANGED <<fs, idx, resolved_files, final_text, result>>
          \* no conflict markers found: marked as resolved
          \/ /\ ~has_merge_conflicts(file)
             /\ Resolved(path, file.text, <<>>)
             /\ UNCHANGED fs
          \* file_path.read_text() raises inside the try block
          \/ /\ has_merge_conflicts(file)
             /\ Skip(path, <<Call("read_text", path, FALSE)>>)
          \* some conflicts remain unresolved
          \/ /\ has_merge_conflicts(file)
             /\ ConflictsRemain(resolved)
             /\ Skip(path, <<>>)
          \* dry run: nothing is renamed or written
          \/ /\ has_merge_conflicts(file)
             /\ ~ConflictsRemain(resolved)
             /\ ~MayWrite(dry_run)
             /\ Resolved(path, resolved, <<>>)
             /\ UNCHANGED fs
          \* file_path.rename(backup_path) raises
          \/ /\ has_merge_conflicts(file)
             /\ ~ConflictsRemain(resolved)
             /\ MayWrite(dry_run)
             /\ Skip(path, <<Call("rename", path, FALSE)>>)
          \* file_path.write_text(resolved_content) raises after the rename
          \/ /\ has_merge_conflicts(file)
             /\ ~ConflictsRemain(resolved)
             /\ MayWrite(dry_run)
             /\ fs' = [fs EXCEPT ![backup] = file, ![path] = Missing]
             /\ calls' = calls \o <<Call("rename", path, TRUE), Call("write_text", path, FALSE)>>
             /\ idx' = idx + 1
             /\ UNCHANGED <<pc, resolved_files, final_text, result, exit_code>>
          \* backup created and resolved content written
          \/ /\ has_merge_conflicts(file)
             /\ ~ConflictsRemain(resolved)
             /\ MayWrite(dry_run)
             /\ fs' = [fs EXCEPT ![backup] = file, ![path] = File(resolved)]
             /\ Resolved(path, resolved,
                         <<Call("rename", path, TRUE), Call("write_text", path, TRUE)>>)
    /\ UNCHANGED <<dry_run, is_repo, conflicted_files>>
    /\ UNCHANGED bufvars

\* the loop is over: regenerate if the proto was resolved (lines 357-363)
Regenerate ==
    /\ pc = "loop"
    /\ idx > Len(conflicted_files)
    /\ IF ProtoResolved(resolved_files) /\ ~dry_run
       THEN \E ok \in BOOLEAN :
              /\ calls' = Append(calls, Call("protoc", NoPath, ok))
              /\ pc' = AfterRegenerate(ok)
              /\ result' = IF pc' = "return" THEN "False" ELSE result
       ELSE pc' = "stage" /\ UNCHANGED <<calls, result>>
    /\ UNCHANGED <<dry_run, is_repo, conflicted_files, fs, idx, resolved_files,
                   final_text, exit_code>>
    /\ UNCHANGED bufvars

\* git add of the resolved files, then the final report (lines 366-384)
Stage ==
    /\ pc = "stage"
    /\ IF resolved_files # <<>> /\ ~dry_run
       THEN \E ok \in BOOLEAN :
              /\ calls' = Append(calls, Call("git add", NoPath, ok))
              /\ result' = IF ok THEN "True" ELSE "False"
       ELSE result' = "True" /\ UNCHANGED calls
    /\ pc' = "return"
    /\ UNCHANGED <<dry_run, is_repo, conflicted_files, fs, idx, resolved_files,
                   final_text, exit_code>>
    /\ UNCHANGED bufvars

\* sys.exit(0 if success else 1) (line 420)
Exit ==
    /\ pc = "return"
    /\ exit_code' = IF result = "True" THEN 0 ELSE 1
    /\ pc' = "exit"
    /\ UNCHANGED <<dry_run, is_repo, conflicted_files, fs, idx, resolved_files,
                   final_text, calls, result>>
    /\ UNCHANGED bufvars

Next == Main \/ GitStatus \/ ProcessFile \/ Regenerate \/ Stage \/ Exit

Spec == Init /\ [][Next]_vars

(***************************************************************************)
(* Properties of the merge strategies                                      *)
(***************************************************************************)
\* s[i] is a field declaration that starts its line (after indentation)
IsFieldAt(s, i) ==
    /\ s[i].k = "decl"
    /\ \E j \in 1..i : /\ j = 1 \/ s[j - 1] = NL
                       /\ \A h \in j..(i - 1) : s[h] = SP

RECURSIVE FieldsFrom(_, _)
FieldsFrom(s, i) ==
    IF i > Len(s) THEN <<>>
    ELSE IF IsFieldAt(s, i) THEN <<s[i]>> \o FieldsFrom(s, i + 1)
    ELSE FieldsFrom(s, i + 1)

\* the declarations of a text, in text order
FieldsOf(s) == FieldsFrom(s, 1)

FieldNames(fields) == {fields[i].n : i \in 1..Len(fields)}
FieldNumbers(fields) == {fields[i].v : i \in 1..Len(fields)}
DistinctNumbers(fields) ==
    \A i, j \in 1..Len(fields) : i # j => fields[i].v # fields[j].v
MaxNumber(fields) ==
    IF fields = <<>> THEN 0
    ELSE CHOOSE m \in FieldNumbers(fields) : \A v \in FieldNumbers(fields) : v <= m
\* the type of the last declaration of `name`
LastType(fields, name) ==
    fields[CHOOSE i \in 1..Len(fields) :
              fields[i].n = name /\ \A j \in (i + 1)..Len(fields) : fields[j].n # name].t

Done == pc = "done"

\* C1 as stated: the numbers declared in the merged text of every block are
\* pairwise distinct, whatever the two sides contain.
C1_NumbersDistinct ==
    Done => \A i \in 1..Len(merged) : DistinctNumbers(FieldsOf(merged[i]))

\* C1 amended: the numbers declared in the merged text of a block are pairwise
\* distinct whenever the numbers declared on its incoming side are.
C1_NumbersDistinctIfIncomingDistinct ==
    Done => \A i \in 1..Len(merged) :
        DistinctNumbers(FieldsOf(conflicts[i].incoming_content))
            => DistinctNumbers(FieldsOf(merged[i]))

\* both sides use one number for different names, and a declaration was added
C1_Witness ==
    /\ Done
    /\ \E i \in 1..Len(merged) :
        LET cur == FieldsOf(conflicts[i].current_content)
            inc == FieldsOf(conflicts[i].incoming_content)
        IN /\ DistinctNumbers(inc)
           /\ Len(FieldsOf(merged[i])) > Len(inc)
           /\ \E a \in 1..Len(cur), b \in 1..Len(inc) :
                 cur[a].v = inc[b].v /\ cur[a].n # inc[b].n

\* the shape C6 gives the merged text of one block
SchemaMergeShape(conflict, section) ==
    LET incoming == conflict.incoming_content
        cur == FieldsOf(conflict.current_content)
        inc == FieldsOf(incoming)
        out == FieldsOf(section)
        new == FieldNames(cur) \ FieldNames(inc)
        k == Cardinality(new)
        base == Max(MaxNumber(inc), MaxNumber(cur))
        added(j) == out[Len(inc) + j]
    IN /\ k = 0 => section = incoming
       /\ Len(out) = Len(inc) + k
       /\ SubSeq(out, 1, Len(inc)) = inc
       /\ \A j \in 1..k :
            /\ added(j).n \in new
            /\ added(j).t = LastType(cur, added(j).n)
            /\ added(j).v = base + j
            /\ j < k => StrLess(added(j).n, added(j + 1).n)
       /\ k > 0 =>
            \E p \in 0..Len(incoming) :
               /\ SubSeq(section, 1, p) = SubSeq(incoming, 1, p)
               /\ \A h \in (p + 1)..Len(incoming) : IsSpace(incoming[h])
               /\ p > 0 => ~IsSpace(incoming[p])
               /\ Len(section) = p + 3 * k
               /\ \A j \in 1..k : /\ section[p + 3 * j - 2] = NL
                                  /\ section[p + 3 * j - 1] = SP
                                  /\ section[p + 3 * j] = added(j)
       /\ FieldNames(cur) \cup FieldNames(inc) = FieldNames(out)
       /\ \A h \in 1..Len(out) :
            out[h].n \in FieldNames(inc) => h <= Len(inc)

\* C6: the schema-field merge returns the incoming text, declarations
\* unaltered, followed by one new declaration per current-only name, with the
\* current side's type and consecutive numbers from max(maxIncoming,
\* maxCurrent) + 1 in lexicographic name order; a name on both sides keeps only
\* its incoming declaration.
C6_SchemaMerge ==
    Done => \A i \in 1..Len(merged) : SchemaMergeShape(conflicts[i], merged[i])

\* incoming "string Foo = 5;", current "string Foo = 3;" and "int Bar = 6;"
\* give "string Foo = 5;" plus "int Bar = 7;"
C6_Witness ==
    /\ Done
    /\ Len(merged) = 1
    /\ FieldsOf(conflicts[1].incoming_content) = <<Decl("string", Foo, 5)>>
    /\ FieldsOf(conflicts[1].current_content)
         = <<Decl("string", Foo, 3), Decl("int", Bar, 6)>>
    /\ FieldsOf(merged[1]) = <<Decl("string", Foo, 5), Decl("int", Bar, 7)>>

NonBlank(text) == \E i \in 1..Len(text) : ~IsSpace(text[i])

IsMarker(t) == t \in {LT, EQ, GT}
HasMarker(text) == \E i \in 1..Len(text) : IsMarker(text[i])

BlockSegments == SelectSeq(segments, LAMBDA g : g.kind = "block")

\* the parser found exactly the blocks the buffer was assembled from
EveryBlockMatched ==
    /\ Len(conflicts) = Len(BlockSegments)
    /\ \A i \in 1..Len(conflicts) : conflicts[i].full_match = BlockSpan(BlockSegments[i])

\* C5: the resolved text of a buffer of well-formed blocks is free of marker
\* tokens iff every block was matched (parsed and replaced).
C5_MarkersGoneIffMatched ==
    Done => (~HasMarker(resolved_content) <=> EveryBlockMatched)

RECURSIVE Splice(_, _, _, _)
Splice(s, pos, spans, sections) ==
    IF spans = <<>> THEN SubSeq(s, pos, Len(s))
    ELSE SubSeq(s, pos, spans[1].start - 1) \o sections[1]
            \o Splice(s, spans[1].end + 1, Tail(spans), Tail(sections))

\* C10: the resolved buffer is the original with the span of each parsed block
\* replaced in place by that block's own merged text; a buffer without markers
\* is returned unchanged and has no start marker.
C10_ReplacedInPlace ==
    Done =>
        /\ resolved_content = Splice(content, 1, FindIter(content, 1), merged)
        /\ ~HasMarker(content) =>
              resolved_content = content /\ ~Contains(resolved_content, LT)

(***************************************************************************)
(* Properties of a run of main / resolve_all_conflicts                     *)
(***************************************************************************)
Failed(op) == \E j \in 1..Len(calls) : calls[j].op = op /\ ~calls[j].ok
StatusOk == \E j \in 1..Len(calls) : calls[j].op = "git status" /\ calls[j].ok
IsResolved(path) == \E j \in 1..Len(resolved_files) : resolved_files[j] = path
AllResolved == \A i \in 1..Len(conflicted_files) : IsResolved(conflicted_files[i])
AllProcessed == \A i \in 1..Len(conflicted_files) : i < idx
Exited == pc = "exit" /\ StatusOk

\* C2: a file is in the resolved set only if its final text holds no conflict
\* marker token; a file with a malformed marker sequence is never resolved.
C2_ResolvedHaveNoMarkers ==
    \A i \in 1..Len(resolved_files) : ~HasMarker(final_text[resolved_files[i]])

\* C3: the run exits with 0 iff every discovered conflicted file was resolved
\* (or none was discovered); it exits non-zero whenever a discovered file is
\* left unresolved or the regeneration failed.
C3_ExitReflectsResolution ==
    Exited =>
        /\ (~Failed("protoc") /\ ~Failed("git add")) => (exit_code = 0 <=> AllResolved)
        /\ Failed("protoc") => exit_code # 0
        /\ ~AllResolved => exit_code # 0

\* C4: a failure of one file's marker check, read, backup rename or write is
\* confined to that file: the file is not resolved, every later file is still
\* processed, and the run is not aborted.
C4_FileFailureConfined ==
    /\ \A j \in 1..Len(calls) :
          (calls[j].op \in {"read_text", "rename", "write_text"} /\ ~calls[j].ok)
              => ~IsResolved(calls[j].path)
    /\ Exited => AllProcessed

FirstCall(op) == CHOOSE j \in 1..Len(calls) : calls[j].op = op
Called(op) == \E j \in 1..Len(calls) : calls[j].op = op

\* C7: regeneration is invoked only if scan_result.proto is in the resolved
\* set, after all files have been processed and before staging; if it fails,
\* staging is never invoked and the run reports failure.
C7_RegenerationOrder ==
    Called("protoc") =>
        /\ ProtoResolved(resolved_files)
        /\ AllProcessed
        /\ \A j \in 1..Len(calls) :
              /\ calls[j].op = "git add" => j > FirstCall("protoc")
              /\ calls[j].op \in {"read_text", "rename", "write_text"}
                    => j < FirstCall("protoc")
        /\ Failed("protoc") =>
              /\ ~Called("git add")
              /\ result = "False"
              /\ pc = "exit" => exit_code = 1

\* regeneration failed in a run that resolved the proto, and the run has exited
C7_Witness ==
    /\ pc = "exit"
    /\ Failed("protoc")
    /\ ProtoResolved(resolved_files)
    /\ exit_code = 1

\* the text a file held when the run started
OriginalFile(path) ==
    IF fs[BackupPath(path)].exists THEN fs[BackupPath(path)] ELSE fs[path]

\* what classifies a file as resolved when nothing is written
Resolvable(path) ==
    /\ \A j \in 1..Len(calls) :
          ~(calls[j].op = "read_text" /\ calls[j].path = path /\ ~calls[j].ok)
    /\ \/ ~has_merge_conflicts(OriginalFile(path))
       \/ ~Contains(ResolveByName(path.name, OriginalFile(path).text), LT)

ExpectedResolved == SelectSeq(conflicted_files, Resolvable)

NoMutation ==
    /\ \A j \in 1..Len(calls) :
          calls[j].op \notin {"rename", "write_text", "protoc", "git add"}
    /\ \A q \in Paths : ~fs[BackupPath(q)].exists

LoopDone == pc \in {"stage", "return", "exit"} /\ StatusOk /\ AllProcessed

====
